---- MODULE Spec2Model ----
(***************************************************************************)
(* A model of FixedCurrencyDataBook (src/src/fixed_currency_data/book.py): *)
(* the Fixer.io "book" with its timeout property and its four fetch        *)
(* procedures.  The HTTP collaborator (requests.get / response.json) is    *)
(* the environment: every call draws one outcome of the request from a     *)
(* bounded family (the GET raises, the body does not parse, or a JSON      *)
(* document of some shape is returned).  Strings are TLA+ strings, so the  *)
(* returned texts are the texts the code builds.                           *)
(***************************************************************************)
EXTENDS Integers, Sequences, FiniteSets, TLC

VARIABLES
    base_url,   \* self._base_url
    timeout,    \* self._timeout (seconds)
    pc,         \* "idle": the host may call; "returned": a call has ended
    call,       \* the call that ended: its procedure, arguments and HTTP outcome
    request,    \* what the call handed to requests.get: url and timeout
    ret,        \* the string the call returned ("" when it raised)
    raised,     \* the class of the exception that left the call ("" when none)
    steps,      \* the statements of the procedure that were evaluated, in order
    lastSet     \* history: the last positive value assigned to timeout, or
                \* DEFAULT_TIMEOUT when none was

vars == <<base_url, timeout, pc, call, request, ret, raised, steps, lastSet>>

(***************************************************************************)
(* Program constants.                                                      *)
(***************************************************************************)
FIXED_CURRENCY_DATA_BASE_URL == "https://data.fixer.io/api"

DEFAULT_TIMEOUT == 30

\* sorted(rates.items())[:10] and len(rates)-10
RatesShown == 10

\* sorted(symbols.items())[:20]
SymbolsShown == 20

(***************************************************************************)
(* Bounds of the model.                                                    *)
(***************************************************************************)
\* the largest number of entries of a rates / symbols object of a response
MaxEntries == 22

\* timeout assignments draw from -1 .. MaxTimeoutArg
MaxTimeoutArg == 2

(***************************************************************************)
(* Characters and strings.  Python compares strings by code point; the     *)
(* model knows the code points of the ASCII letters, which is all the      *)
(* currency codes it draws are made of.                                    *)
(***************************************************************************)
UpperLetters == "ABCDEFGHIJKLMNOPQRSTUVWXYZ"

LowerLetters == "abcdefghijklmnopqrstuvwxyz"

Char(s, i) == SubSeq(s, i, i)

IsUpperLetter(c) == \E i \in 1..Len(UpperLetters) : Char(UpperLetters, i) = c

IsLowerLetter(c) == \E i \in 1..Len(LowerLetters) : Char(LowerLetters, i) = c

LetterIndex(alphabet, c) == CHOOSE i \in 1..Len(alphabet) : Char(alphabet, i) = c

\* ord(c) for an ASCII letter; every other character the model uses sorts
\* before the letters (space, digits, punctuation: code points below 65)
Ord(c) ==
    IF IsUpperLetter(c) THEN 64 + LetterIndex(UpperLetters, c)
    ELSE IF IsLowerLetter(c) THEN 96 + LetterIndex(LowerLetters, c)
    ELSE 0

\* str.upper() of one character
UpperChar(c) ==
    IF IsLowerLetter(c) THEN Char(UpperLetters, LetterIndex(LowerLetters, c))
    ELSE c

RECURSIVE PyUpper(_)
\* str.upper()
PyUpper(s) ==
    IF Len(s) = 0 THEN ""
    ELSE UpperChar(Char(s, 1)) \o PyUpper(SubSeq(s, 2, Len(s)))

RECURSIVE StrLess(_, _)
\* a < b for two Python strings: lexicographic by code point
StrLess(a, b) ==
    IF Len(b) = 0 THEN FALSE
    ELSE IF Len(a) = 0 THEN TRUE
    ELSE IF Ord(Char(a, 1)) # Ord(Char(b, 1)) THEN Ord(Char(a, 1)) < Ord(Char(b, 1))
    ELSE StrLess(SubSeq(a, 2, Len(a)), SubSeq(b, 2, Len(b)))

StartsWith(s, prefix) ==
    Len(s) >= Len(prefix) /\ SubSeq(s, 1, Len(prefix)) = prefix

RECURSIVE Join(_, _)
\* sep.join(parts)
Join(sep, parts) ==
    IF Len(parts) = 0 THEN ""
    ELSE IF Len(parts) = 1 THEN parts[1]
    ELSE parts[1] \o sep \o Join(sep, Tail(parts))

RECURSIVE Pow10(_)
Pow10(d) == IF d = 0 THEN 1 ELSE 10 * Pow10(d - 1)

RECURSIVE ZeroPad(_, _)
\* the decimal digits of n >= 0, left-padded with zeros to width w
ZeroPad(n, w) ==
    IF Len(ToString(n)) >= w THEN ToString(n) ELSE "0" \o ZeroPad(n, w - 1)

(***************************************************************************)
(* Parsed JSON documents, as response.json() returns them.  A value is a   *)
(* record with a type tag t: "null", "bool" (n is 0 or 1), "int" (n),      *)
(* "float" (n counts hundredths: the float n/100), "str" (s), "arr" and    *)
(* "obj" (items: the key/value pairs k, v in the order of the document,    *)
(* which is the iteration order of the Python dict).                       *)
(***************************************************************************)
JNull == [t |-> "null", n |-> 0, s |-> "", items |-> <<>>]

JBool(b) == [t |-> "bool", n |-> IF b THEN 1 ELSE 0, s |-> "", items |-> <<>>]

JInt(i) == [t |-> "int", n |-> i, s |-> "", items |-> <<>>]

JFloat(h) == [t |-> "float", n |-> h, s |-> "", items |-> <<>>]

JStr(str) == [t |-> "str", n |-> 0, s |-> str, items |-> <<>>]

JArr(xs) == [t |-> "arr", n |-> 0, s |-> "", items |-> xs]

JObj(pairs) == [t |-> "obj", n |-> 0, s |-> "", items |-> pairs]

Pair(key, val) == [k |-> key, v |-> val]

\* hundredths per unit of a "float" value
FloatScale == Pow10(2)

\* the name Python gives the type of a parsed value (in its error messages)
PyTypeName(j) ==
    CASE j.t = "null" -> "NoneType"
      [] j.t = "bool" -> "bool"
      [] j.t = "int" -> "int"
      [] j.t = "float" -> "float"
      [] j.t = "str" -> "str"
      [] j.t = "arr" -> "list"
      [] j.t = "obj" -> "dict"

\* bool(j): what "not j" tests
Truthy(j) ==
    CASE j.t = "null" -> FALSE
      [] j.t \in {"bool", "int", "float"} -> j.n # 0
      [] j.t = "str" -> j.s # ""
      [] j.t \in {"arr", "obj"} -> Len(j.items) > 0

IsNumber(j) == j.t \in {"bool", "int", "float"}

HasKey(obj, key) == \E i \in 1..Len(obj.items) : obj.items[i].k = key

\* dict.get(key, default)
DictGet(obj, key, default) ==
    IF HasKey(obj, key)
    THEN obj.items[CHOOSE i \in 1..Len(obj.items) : obj.items[i].k = key].v
    ELSE default

\* repr() of the float h/100, h >= 0: the shortest decimal that reads back,
\* with at least one digit after the point
PyFloatRepr(h) ==
    LET ip == h \div FloatScale
        fp == h % FloatScale
    IN  ToString(ip) \o "." \o
        (IF fp % 10 = 0 THEN ToString(fp \div 10) ELSE ZeroPad(fp, 2))

\* str(j), what an f-string field {j} renders, for the values the model
\* formats: scalars and empty containers
PyStr(j) ==
    CASE j.t = "null" -> "None"
      [] j.t = "bool" -> (IF j.n = 1 THEN "True" ELSE "False")
      [] j.t = "int" -> ToString(j.n)
      [] j.t = "float" -> PyFloatRepr(j.n)
      [] j.t = "str" -> j.s
      [] j.t = "arr" -> "[]"
      [] j.t = "obj" -> "{}"

(***************************************************************************)
(* Numbers.  A Python float is modelled by the rational num/den it stands  *)
(* for; the amounts and rates drawn have at most two decimals, so that     *)
(* the products and quotients formed stay far from the precision of a      *)
(* double.                                                                 *)
(***************************************************************************)
Abs(x) == IF x < 0 THEN -x ELSE x

\* round(num/den) to the nearest integer, num >= 0, den > 0, ties to even
RoundHalfEven(num, den) ==
    LET q == num \div den
        r == num % den
    IN  IF 2 * r > den THEN q + 1
        ELSE IF 2 * r < den THEN q
        ELSE IF q % 2 = 0 THEN q ELSE q + 1

\* format(num/den, ".<d>f"), den > 0: sign, integer part, point, d decimals
FormatFixed(num, den, d) ==
    LET q == RoundHalfEven(Abs(num) * Pow10(d), den)
    IN  (IF num < 0 THEN "-" ELSE "") \o
        ToString(q \div Pow10(d)) \o "." \o ZeroPad(q % Pow10(d), d)

Digits == "0123456789"

IsDigit(c) == \E i \in 1..Len(Digits) : Char(Digits, i) = c

DigitVal(c) == (CHOOSE i \in 1..Len(Digits) : Char(Digits, i) = c) - 1

RECURSIVE LStrip(_)
LStrip(s) ==
    IF Len(s) > 0 /\ Char(s, 1) = " " THEN LStrip(SubSeq(s, 2, Len(s))) ELSE s

RECURSIVE RStrip(_)
RStrip(s) ==
    IF Len(s) > 0 /\ Char(s, Len(s)) = " " THEN RStrip(SubSeq(s, 1, Len(s) - 1)) ELSE s

RECURSIVE AllDigits(_)
AllDigits(s) ==
    Len(s) = 0 \/ (IsDigit(Char(s, 1)) /\ AllDigits(SubSeq(s, 2, Len(s))))

RECURSIVE DigitsValue(_)
\* int(s) for a string of digits ("" is 0)
DigitsValue(s) ==
    IF Len(s) = 0 THEN 0
    ELSE 10 * DigitsValue(SubSeq(s, 1, Len(s) - 1)) + DigitVal(Char(s, Len(s)))

PointAt(s) ==
    IF \E i \in 1..Len(s) : Char(s, i) = "."
    THEN CHOOSE i \in 1..Len(s) :
            Char(s, i) = "." /\ \A j \in 1..(i - 1) : Char(s, j) # "."
    ELSE 0

\* float(s) on plain decimal text: surrounding blanks, an optional sign,
\* digits with an optional point and at least one digit.  ok is FALSE where
\* float() raises ValueError; otherwise the value is num/den.  (Exponents,
\* underscores, "inf" and "nan", which float() also reads, are not among
\* the amounts the model draws.)
PyFloat(s) ==
    LET body == RStrip(LStrip(s))
        signed == Len(body) > 0 /\ Char(body, 1) \in {"-", "+"}
        neg == Len(body) > 0 /\ Char(body, 1) = "-"
        mag == IF signed THEN SubSeq(body, 2, Len(body)) ELSE body
        p == PointAt(mag)
        ipart == IF p = 0 THEN mag ELSE SubSeq(mag, 1, p - 1)
        fpart == IF p = 0 THEN "" ELSE SubSeq(mag, p + 1, Len(mag))
        good == AllDigits(ipart) /\ AllDigits(fpart) /\ Len(ipart) + Len(fpart) > 0
        m == DigitsValue(ipart) * Pow10(Len(fpart)) + DigitsValue(fpart)
    IN  IF good
        THEN [ok |-> TRUE, num |-> IF neg THEN -m ELSE m, den |-> Pow10(Len(fpart))]
        ELSE [ok |-> FALSE, num |-> 0, den |-> 1]

\* float(j) of a parsed number, as num/den
NumValue(j) ==
    IF j.t = "float" THEN [num |-> j.n, den |-> FloatScale]
    ELSE [num |-> j.n, den |-> 1]

(***************************************************************************)
(* Exceptions.  An exception is its class and its message, str(e).  The    *)
(* classes are those the request, the parse and the statements of the      *)
(* procedures raise; all derive from Exception, and the error             *)
(* response.json() raises on a body that is not JSON derives from          *)
(* ValueError as well (json.JSONDecodeError is a ValueError).              *)
(***************************************************************************)
Exc(cls, msg) == [cls |-> cls, msg |-> msg]

NoExc == Exc("", "")

ExceptionClasses ==
    {"ConnectionError", "ReadTimeout", "JSONDecodeError", "ValueError",
     "AttributeError", "TypeError"}

\* isinstance(e, base) for e of class cls
IsInstance(cls, base) ==
    CASE base = "Exception" -> cls \in ExceptionClasses
      [] base = "ValueError" -> cls \in {"ValueError", "JSONDecodeError"}
      [] OTHER -> cls = base

\* AttributeError of j.attr for a parsed value j that has no such method
NoAttribute(j, attr) ==
    Exc("AttributeError",
        "'" \o PyTypeName(j) \o "' object has no attribute '" \o attr \o "'")

(***************************************************************************)
(* How the body of a procedure ends: it returns a string or an exception   *)
(* is raised in it; st lists the statements evaluated on the way.          *)
(***************************************************************************)
Return(str, st) == [kind |-> "return", value |-> str, exc |-> NoExc, steps |-> st]

Raise(e, st) == [kind |-> "raise", value |-> "", exc |-> e, steps |-> st]

\* what requests.get(url, timeout=...) was called with
Request(url, t) == [url |-> url, timeout |-> t]

NoRequest == Request("", 0)

(***************************************************************************)
(* The statements the four procedures share.                               *)
(***************************************************************************)
\* response = requests.get(url, timeout=self._timeout); data = response.json()
\* resp is the outcome the environment chose for this request
FetchJson(resp) ==
    CASE resp.kind = "get_raises" -> Raise(resp.exc, <<"get">>)
      [] resp.kind = "json_raises" -> Raise(resp.exc, <<"get", "json">>)
      [] resp.kind = "json" -> Return("", <<"get", "json">>)

\* data.get("success", False), with data any parsed value
SuccessField(data) == DictGet(data, "success", JBool(FALSE))

\* error.get('info') with no default
ApiFailureNoDefault(data, st) ==
    LET error == DictGet(data, "error", JObj(<<>>))
    IN  IF error.t # "obj"
        THEN Raise(NoAttribute(error, "get"), st \o <<"error">>)
        ELSE Return("Error: " \o PyStr(DictGet(error, "info", JNull)),
                    st \o <<"error", "info">>)

\* error = data.get("error", {}); return f"Error: {error.get('info', 'API request failed')}"
ApiFailure(data, st) ==
    LET error == DictGet(data, "error", JObj(<<>>))
    IN  IF error.t # "obj"
        THEN Raise(NoAttribute(error, "get"), st \o <<"error">>)
        ELSE Return("Error: " \o PyStr(DictGet(error, "info", JStr("API request failed"))),
                    st \o <<"error", "info">>)

RECURSIVE InsertByKey(_, _)
\* p placed into a sequence of pairs that ascends by key, before the first
\* pair of a greater key
InsertByKey(p, sorted) ==
    IF Len(sorted) = 0 THEN <<p>>
    ELSE IF StrLess(p.k, sorted[1].k) THEN <<p>> \o sorted
    ELSE <<sorted[1]>> \o InsertByKey(p, Tail(sorted))

\* rates.items() taken as they come
UnsortedItems(items) == items

RECURSIVE SortedItems(_)
\* sorted(d.items()): the keys of a dict are distinct, so the (key, value)
\* tuples are ordered by their keys alone
SortedItems(items) ==
    IF Len(items) = 0 THEN <<>>
    ELSE InsertByKey(items[Len(items)], SortedItems(SubSeq(items, 1, Len(items) - 1)))

Min(a, b) == IF a < b THEN a ELSE b

\* xs[:n]
Take(xs, n) == SubSeq(xs, 1, Min(n, Len(xs)))

\* [f"{k}: {v}" for k, v in items]
EntryList(items) == [i \in 1..Len(items) |-> items[i].k \o ": " \o PyStr(items[i].v)]

RECURSIVE Gcd(_, _)
Gcd(a, b) == IF b = 0 THEN a ELSE Gcd(b, a % b)

\* the rational num/den, den # 0, in lowest terms with a positive denominator
Rat(num, den) ==
    LET g == Gcd(Abs(num), Abs(den))
        sgn == IF den < 0 THEN -1 ELSE 1
    IN  [num |-> sgn * (num \div g), den |-> sgn * (den \div g)]

\* b / a
RatDivInverted(a, b) == Rat(b.num * a.den, b.den * a.num)

\* a / b and a * b on the numbers floats stand for
RatDiv(a, b) == Rat(a.num * b.den, a.den * b.num)

RatMul(a, b) == Rat(a.num * b.num, a.den * b.den)

\* a handler for the errors of the requests library only
ExceptRequestException(out) ==
    IF out.kind = "raise" /\ out.exc.cls \in {"ConnectionError", "ReadTimeout", "JSONDecodeError"}
    THEN Return("Error: " \o out.exc.msg, out.steps \o <<"except RequestException">>)
    ELSE out

(***************************************************************************)
(* except Exception as e: return f"Error: {str(e)}"                        *)
(***************************************************************************)
ExceptException(out) ==
    IF out.kind = "raise" /\ IsInstance(out.exc.cls, "Exception")
    THEN Return("Error: " \o out.exc.msg, out.steps \o <<"except Exception">>)
    ELSE out

(***************************************************************************)
(* get_rates(api_key)                                                      *)
(***************************************************************************)
GetRatesUrl(base, api_key) == base \o "/latest?access_key=" \o api_key

\* the statements after the success check
GetRatesFormat(data, st) ==
    LET base == DictGet(data, "base", JStr("EUR"))
        date == DictGet(data, "date", JStr("unknown"))
        rates == DictGet(data, "rates", JObj(<<>>))
    IN  IF rates.t # "obj"
        THEN Raise(NoAttribute(rates, "items"), st \o <<"rates">>)
        ELSE Return("Exchange rates for " \o PyStr(base) \o " on " \o PyStr(date) \o ": "
                        \o Join(", ", EntryList(Take(SortedItems(rates.items), RatesShown)))
                        \o " (and " \o ToString(Len(rates.items) - RatesShown)
                        \o " more currencies available)",
                    st \o <<"rates", "sorted", "format">>)

\* the body of the try block
GetRatesTry(resp) ==
    LET f == FetchJson(resp)
        data == resp.data
    IN  IF f.kind = "raise" THEN f
        ELSE IF data.t # "obj" THEN Raise(NoAttribute(data, "get"), f.steps \o <<"success">>)
        ELSE IF ~Truthy(SuccessField(data)) THEN ApiFailure(data, f.steps \o <<"success">>)
        ELSE GetRatesFormat(data, f.steps \o <<"success">>)

get_rates(resp) == ExceptException(GetRatesTry(resp))

(***************************************************************************)
(* get_specific_rates(currencies, api_key)                                 *)
(***************************************************************************)
GetSpecificRatesUrl(base, currencies, api_key) ==
    base \o "/latest?access_key=" \o api_key \o "&symbols=" \o PyUpper(currencies)

\* the listing of get_rates, its first entries only, in get_specific_rates
GetSpecificRatesTruncated(data, st) ==
    LET base == DictGet(data, "base", JStr("EUR"))
        date == DictGet(data, "date", JStr("unknown"))
        rates == DictGet(data, "rates", JObj(<<>>))
    IN  IF rates.t # "obj"
        THEN Raise(NoAttribute(rates, "items"), st \o <<"rates">>)
        ELSE Return("Exchange rates for " \o PyStr(base) \o " on " \o PyStr(date) \o ": "
                        \o Join(", ", EntryList(Take(rates.items, RatesShown))),
                    st \o <<"rates", "format">>)

GetSpecificRatesFormat(data, st) ==
    LET base == DictGet(data, "base", JStr("EUR"))
        date == DictGet(data, "date", JStr("unknown"))
        rates == DictGet(data, "rates", JObj(<<>>))
    IN  IF rates.t # "obj"
        THEN Raise(NoAttribute(rates, "items"), st \o <<"rates">>)
        ELSE Return("Exchange rates for " \o PyStr(base) \o " on " \o PyStr(date) \o ": "
                        \o Join(", ", EntryList(rates.items)),
                    st \o <<"rates", "format">>)

GetSpecificRatesTry(resp) ==
    LET f == FetchJson(resp)
        data == resp.data
    IN  IF f.kind = "raise" THEN f
        ELSE IF data.t # "obj" THEN Raise(NoAttribute(data, "get"), f.steps \o <<"success">>)
        ELSE IF ~Truthy(SuccessField(data)) THEN ApiFailure(data, f.steps \o <<"success">>)
        ELSE GetSpecificRatesFormat(data, f.steps \o <<"success">>)

get_specific_rates(resp) == ExceptException(GetSpecificRatesTry(resp))

(***************************************************************************)
(* convert_currency(amount, source_currency, target_currency, api_key)     *)
(***************************************************************************)
ConvertCurrencyUrl(base, source_currency, target_currency, api_key) ==
    base \o "/latest?access_key=" \o api_key \o "&symbols="
         \o PyUpper(source_currency) \o "," \o PyUpper(target_currency)

\* amount_float = float(amount); conversion_rate = target_rate / source_rate;
\* result = amount_float * conversion_rate; and the f-string returned
ConvertCompute(amount, source_currency, target_currency, source_rate, target_rate, date, st) ==
    LET amount_float == PyFloat(amount)
    IN  IF ~amount_float.ok
        THEN Raise(Exc("ValueError", "could not convert string to float: '" \o amount \o "'"),
                   st \o <<"float">>)
        ELSE IF ~(IsNumber(target_rate) /\ IsNumber(source_rate))
        THEN Raise(Exc("TypeError", "unsupported operand type(s) for /: '"
                           \o PyTypeName(target_rate) \o "' and '"
                           \o PyTypeName(source_rate) \o "'"),
                   st \o <<"float", "divide">>)
        ELSE LET conversion_rate == RatDiv(NumValue(target_rate), NumValue(source_rate))
                 result == RatMul(amount_float, conversion_rate)
             IN  Return("Converted " \o amount \o " " \o PyUpper(source_currency) \o " to "
                            \o FormatFixed(result.num, result.den, 4) \o " "
                            \o PyUpper(target_currency) \o " (rate: "
                            \o FormatFixed(conversion_rate.num, conversion_rate.den, 6)
                            \o ") on " \o PyStr(date),
                        st \o <<"float", "divide", "multiply", "format">>)

\* a lookup that tests the source rate only
ConvertLookupSourceOnly(amount, source_currency, target_currency, data, st) ==
    LET rates == DictGet(data, "rates", JObj(<<>>))
        date == DictGet(data, "date", JStr("unknown"))
    IN  IF rates.t # "obj"
        THEN Raise(NoAttribute(rates, "get"), st \o <<"rates">>)
        ELSE LET source_rate == DictGet(rates, PyUpper(source_currency), JNull)
                 target_rate == DictGet(rates, PyUpper(target_currency), JNull)
             IN  IF ~Truthy(source_rate)
                 THEN Return("Error: Could not find rates for " \o source_currency
                                 \o " or " \o target_currency,
                             st \o <<"rates", "lookup">>)
                 ELSE ConvertCompute(amount, source_currency, target_currency,
                                     source_rate, target_rate, date,
                                     st \o <<"rates", "lookup">>)

\* the statements after the success check
ConvertLookup(amount, source_currency, target_currency, data, st) ==
    LET rates == DictGet(data, "rates", JObj(<<>>))
        date == DictGet(data, "date", JStr("unknown"))
    IN  IF rates.t # "obj"
        THEN Raise(NoAttribute(rates, "get"), st \o <<"rates">>)
        ELSE LET source_rate == DictGet(rates, PyUpper(source_currency), JNull)
                 target_rate == DictGet(rates, PyUpper(target_currency), JNull)
             IN  IF ~Truthy(source_rate) \/ ~Truthy(target_rate)
                 THEN Return("Error: Could not find rates for " \o source_currency
                                 \o " or " \o target_currency,
                             st \o <<"rates", "lookup">>)
                 ELSE ConvertCompute(amount, source_currency, target_currency,
                                     source_rate, target_rate, date,
                                     st \o <<"rates", "lookup">>)

ConvertCurrencyTry(amount, source_currency, target_currency, resp) ==
    LET f == FetchJson(resp)
        data == resp.data
    IN  IF f.kind = "raise" THEN f
        ELSE IF data.t # "obj" THEN Raise(NoAttribute(data, "get"), f.steps \o <<"success">>)
        ELSE IF ~Truthy(SuccessField(data)) THEN ApiFailure(data, f.steps \o <<"success">>)
        ELSE ConvertLookup(amount, source_currency, target_currency, data,
                           f.steps \o <<"success">>)

\* the handlers of the other procedures: no clause for ValueError
ConvertExceptGeneric(amount, out) == ExceptException(out)

\* except ValueError: return f"Error: Invalid amount '{amount}'. ..."
\* and then except Exception as e
ConvertExcept(amount, out) ==
    IF out.kind = "raise" /\ IsInstance(out.exc.cls, "ValueError")
    THEN Return("Error: Invalid amount '" \o amount \o "'. Please provide a numeric value.",
                out.steps \o <<"except ValueError">>)
    ELSE ExceptException(out)

convert_currency(amount, source_currency, target_currency, resp) ==
    ConvertExcept(amount, ConvertCurrencyTry(amount, source_currency, target_currency, resp))

(***************************************************************************)
(* check_supported_currencies(api_key)                                     *)
(***************************************************************************)
CheckSupportedUrl(base, api_key) == base \o "/symbols?access_key=" \o api_key

\* a header that reports the number of entries listed as the total
CheckSupportedFormatListedTotal(data, st) ==
    LET symbols == DictGet(data, "symbols", JObj(<<>>))
    IN  IF symbols.t # "obj"
        THEN Raise(NoAttribute(symbols, "items"), st \o <<"symbols">>)
        ELSE Return("Supported currencies (first 20 of "
                        \o ToString(Len(Take(SortedItems(symbols.items), SymbolsShown)))
                        \o " total): "
                        \o Join(", ", EntryList(Take(SortedItems(symbols.items), SymbolsShown))),
                    st \o <<"symbols", "sorted", "format">>)

CheckSupportedFormat(data, st) ==
    LET symbols == DictGet(data, "symbols", JObj(<<>>))
    IN  IF symbols.t # "obj"
        THEN Raise(NoAttribute(symbols, "items"), st \o <<"symbols">>)
        ELSE Return("Supported currencies (first 20 of " \o ToString(Len(symbols.items))
                        \o " total): "
                        \o Join(", ", EntryList(Take(SortedItems(symbols.items), SymbolsShown))),
                    st \o <<"symbols", "sorted", "format">>)

CheckSupportedTry(resp) ==
    LET f == FetchJson(resp)
        data == resp.data
    IN  IF f.kind = "raise" THEN f
        ELSE IF data.t # "obj" THEN Raise(NoAttribute(data, "get"), f.steps \o <<"success">>)
        ELSE IF ~Truthy(SuccessField(data)) THEN ApiFailure(data, f.steps \o <<"success">>)
        ELSE CheckSupportedFormat(data, f.steps \o <<"success">>)

check_supported_currencies(resp) == ExceptException(CheckSupportedTry(resp))

\* say_hello()
say_hello ==
    "Hello from Fixer currency exchange book! Use other procedures with your Fixer.io API key."

(***************************************************************************)
(* The environment: the outcomes of one request.                           *)
(***************************************************************************)
GetRaises(e) == [kind |-> "get_raises", exc |-> e, data |-> JNull]

JsonRaises(e) == [kind |-> "json_raises", exc |-> e, data |-> JNull]

Json(data) == [kind |-> "json", exc |-> NoExc, data |-> data]

\* requests.get raises: the connection is refused, the timeout expires
TransportFailures ==
    {GetRaises(Exc("ConnectionError", "Connection refused")),
     GetRaises(Exc("ReadTimeout", "Read timed out."))}

\* response.json() raises: the body is not JSON
MalformedBodies ==
    {JsonRaises(Exc("JSONDecodeError", "Expecting value: line 1 column 1 (char 0)"))}

\* the body is JSON but no object
WrongShapes == {Json(JArr(<<>>)), Json(JNull)}

\* the letters currency codes are drawn from, in code point order
CodeLetters == "ABa"

CodeBase == Len(CodeLetters)

\* the number of codes: those of two letters, then those of three
NumCodes == CodeBase * CodeBase + CodeBase * CodeBase * CodeBase

CodeLetter(d) == Char(CodeLetters, d + 1)

\* the i-th code, 0 <= i < NumCodes
CodeOf(i) ==
    IF i < CodeBase * CodeBase
    THEN CodeLetter(i \div CodeBase) \o CodeLetter(i % CodeBase)
    ELSE LET j == i - CodeBase * CodeBase
         IN  CodeLetter(j \div (CodeBase * CodeBase)) \o CodeLetter((j \div CodeBase) % CodeBase)
                 \o CodeLetter(j % CodeBase)

\* the rate a document gives code i: an integer for some, a float for the rest
RateOf(i) == IF i % 4 = 0 THEN JInt(1 + i \div 4) ELSE JFloat(50 + 7 * i)

\* the index of the e-th entry of a document of distinct codes
EntryIndex(start, stride, e) == (start + stride * (e - 1)) % NumCodes

RatesObject(n, start, stride) ==
    JObj([e \in 1..n |-> Pair(CodeOf(EntryIndex(start, stride, e)),
                              RateOf(EntryIndex(start, stride, e)))])

SymbolsObject(n, start, stride) ==
    JObj([e \in 1..n |-> Pair(CodeOf(EntryIndex(start, stride, e)),
                              JStr("Currency " \o CodeOf(EntryIndex(start, stride, e))))])

\* documents list their entries ascending, rotated or descending
EntryStarts == {0, 5}

EntryStrides == {1, NumCodes - 1}

Optional(key, present, val) == IF present THEN <<Pair(key, val)>> ELSE <<>>

\* {"success": false, ...} and documents without "success"
FailureDocuments ==
    {Json(JObj(Optional("success", hasSuccess, JBool(FALSE))
               \o Optional("error", error # "absent",
                           CASE error = "empty" -> JObj(<<>>)
                             [] error = "info" ->
                                  JObj(<<Pair("code", JInt(101)),
                                         Pair("info", JStr("You have not supplied a valid API Access Key."))>>)
                             [] OTHER -> JNull)
               \o Optional("rates", hasRates, RatesObject(2, 0, 1))
               \o Optional("symbols", hasRates, SymbolsObject(2, 0, 1)))) :
        hasSuccess \in BOOLEAN, error \in {"absent", "empty", "info", "null"},
        hasRates \in BOOLEAN}

FailureResponses ==
    TransportFailures \cup MalformedBodies \cup WrongShapes \cup FailureDocuments

\* {"success": true, "base": ..., "date": ..., "rates": {...}}
RatesDocuments ==
    {Json(JObj(<<Pair("success", JBool(TRUE))>>
               \o Optional("base", hasBase, JStr("USD"))
               \o Optional("date", hasDate, JStr("2024-01-01"))
               \o <<Pair("rates", RatesObject(n, start, stride))>>)) :
        hasBase \in BOOLEAN, hasDate \in BOOLEAN, n \in 0..MaxEntries,
        start \in EntryStarts, stride \in EntryStrides}
    \cup {Json(JObj(<<Pair("success", JBool(TRUE))>>)),
          Json(JObj(<<Pair("success", JBool(TRUE)), Pair("rates", JNull)>>))}

\* {"success": true, "symbols": {...}}
SymbolsDocuments ==
    {Json(JObj(<<Pair("success", JBool(TRUE)),
                 Pair("symbols", SymbolsObject(n, start, stride))>>)) :
        n \in 0..MaxEntries, start \in EntryStarts, stride \in EntryStrides}
    \cup {Json(JObj(<<Pair("success", JBool(TRUE))>>)),
          Json(JObj(<<Pair("success", JBool(TRUE)), Pair("symbols", JArr(<<>>))>>))}

\* what a document may hold for one currency: nothing, null, zero, a rate
\* (as an integer or a float), or text
QuotedRates ==
    {"absent", "null", "zero", "one", "1.0", "0.85", "1.08", "text"}

QuotedRate(q) ==
    CASE q = "null" -> JNull
      [] q = "zero" -> JFloat(0)
      [] q = "one" -> JInt(1)
      [] q = "1.0" -> JFloat(100)
      [] q = "0.85" -> JFloat(85)
      [] q = "1.08" -> JFloat(108)
      [] q = "text" -> JStr("n/a")
      [] OTHER -> JNull

\* {"success": true, "date": ..., "rates": {"USD": ..., "EUR": ...}}
ConvertDocuments ==
    {Json(JObj(<<Pair("success", JBool(TRUE))>>
               \o Optional("date", hasDate, JStr("2024-01-01"))
               \o <<Pair("rates", JObj(Optional("USD", usd # "absent", QuotedRate(usd))
                                       \o Optional("EUR", eur # "absent", QuotedRate(eur))))>>)) :
        hasDate \in BOOLEAN, usd \in QuotedRates, eur \in QuotedRates}
    \cup {Json(JObj(<<Pair("success", JBool(TRUE))>>)),
          Json(JObj(<<Pair("success", JBool(TRUE)), Pair("rates", JNull)>>))}

\* the arguments the host passes
ApiKeys == {"test_key"}

CurrencyLists == {"usd,gbp", "USD,EUR"}

Amounts == {"100", "2.5", " 7 ", "-3", "abc", "", "1,5"}

CurrencyPairs ==
    {<<"USD", "EUR">>, <<"usd", "eur">>, <<"EUR", "USD">>, <<"USD", "GBP">>, <<"Usd", "USD">>}

TimeoutArgs == (-1)..MaxTimeoutArg

(***************************************************************************)
(* The state machine.  The host calls one procedure at a time (pc "idle"   *)
(* to "returned"), reads what it returned or raised, and goes on.          *)
(***************************************************************************)
Call(proc, args, resp) == [proc |-> proc, args |-> args, resp |-> resp]

NoArgs == [api_key |-> "", currencies |-> "", amount |-> "",
           source_currency |-> "", target_currency |-> "", timeout |-> 0]

NoResp == Json(JNull)

NoCall == Call("", NoArgs, NoResp)

FetchProcedures ==
    {"get_rates", "get_specific_rates", "convert_currency", "check_supported_currencies"}

\* __init__
Init ==
    /\ base_url = FIXED_CURRENCY_DATA_BASE_URL
    /\ timeout = DEFAULT_TIMEOUT
    /\ pc = "idle"
    /\ call = NoCall
    /\ request = NoRequest
    /\ ret = ""
    /\ raised = ""
    /\ steps = <<>>
    /\ lastSet = DEFAULT_TIMEOUT

\* a setter that rejects negative values only
TimeoutRejectedNegativeOnly(t) == t < 0

\* if timeout <= 0: raise ValueError(...)
TimeoutRejected(t) == t <= 0

\* book.timeout = t
SetTimeout ==
    /\ pc = "idle"
    /\ \E t \in TimeoutArgs :
        /\ pc' = "returned"
        /\ call' = Call("timeout.setter", [NoArgs EXCEPT !.timeout = t], NoResp)
        /\ IF TimeoutRejected(t)
           THEN /\ raised' = "ValueError"
                /\ steps' = <<"raise">>
                /\ UNCHANGED timeout
           ELSE /\ raised' = ""
                /\ steps' = <<"assign">>
                /\ timeout' = t
        /\ lastSet' = IF t > 0 THEN t ELSE lastSet
        /\ ret' = ""
        /\ request' = NoRequest
        /\ UNCHANGED base_url

\* a fetch procedure ends with out, having called requests.get(url, timeout)
Finish(c, url, out) ==
    /\ pc' = "returned"
    /\ call' = c
    /\ request' = Request(url, timeout)
    /\ ret' = out.value
    /\ raised' = IF out.kind = "raise" THEN out.exc.cls ELSE ""
    /\ steps' = out.steps
    /\ UNCHANGED <<base_url, timeout, lastSet>>

SayHello ==
    /\ pc = "idle"
    /\ pc' = "returned"
    /\ call' = Call("say_hello", NoArgs, NoResp)
    /\ request' = NoRequest
    /\ ret' = say_hello
    /\ raised' = ""
    /\ steps' = <<"return">>
    /\ UNCHANGED <<base_url, timeout, lastSet>>

GetRates ==
    /\ pc = "idle"
    /\ \E api_key \in ApiKeys, resp \in FailureResponses \cup RatesDocuments :
        Finish(Call("get_rates", [NoArgs EXCEPT !.api_key = api_key], resp),
               GetRatesUrl(base_url, api_key),
               get_rates(resp))

GetSpecificRates ==
    /\ pc = "idle"
    /\ \E api_key \in ApiKeys, currencies \in CurrencyLists,
       resp \in FailureResponses \cup RatesDocuments :
        Finish(Call("get_specific_rates",
                    [NoArgs EXCEPT !.api_key = api_key, !.currencies = currencies], resp),
               GetSpecificRatesUrl(base_url, currencies, api_key),
               get_specific_rates(resp))

ConvertCurrency ==
    /\ pc = "idle"
    /\ \E api_key \in ApiKeys, amount \in Amounts, pair \in CurrencyPairs,
       resp \in FailureResponses \cup ConvertDocuments :
        Finish(Call("convert_currency",
                    [NoArgs EXCEPT !.api_key = api_key, !.amount = amount,
                                   !.source_currency = pair[1],
                                   !.target_currency = pair[2]], resp),
               ConvertCurrencyUrl(base_url, pair[1], pair[2], api_key),
               convert_currency(amount, pair[1], pair[2], resp))

CheckSupportedCurrencies ==
    /\ pc = "idle"
    /\ \E api_key \in ApiKeys, resp \in FailureResponses \cup SymbolsDocuments :
        Finish(Call("check_supported_currencies", [NoArgs EXCEPT !.api_key = api_key], resp),
               CheckSupportedUrl(base_url, api_key),
               check_supported_currencies(resp))

\* the host has read the outcome of the call and is ready for the next one
Resume ==
    /\ pc = "returned"
    /\ pc' = "idle"
    /\ call' = NoCall
    /\ request' = NoRequest
    /\ ret' = ""
    /\ raised' = ""
    /\ steps' = <<>>
    /\ UNCHANGED <<base_url, timeout, lastSet>>

Next ==
    \/ SetTimeout
    \/ SayHello
    \/ GetRates
    \/ GetSpecificRates
    \/ ConvertCurrency
    \/ CheckSupportedCurrencies
    \/ Resume

Spec == Init /\ [][Next]_vars

(***************************************************************************)
(* Properties.  They are stated on the state a call leaves behind: the     *)
(* call (procedure, arguments, outcome of the request), what it returned   *)
(* or raised, the request it made and the statements it evaluated.         *)
(***************************************************************************)
Returned(proc) == pc = "returned" /\ call.proc = proc

FetchReturned == pc = "returned" /\ call.proc \in FetchProcedures

\* the parsed document of the call
Doc == call.resp.data

\* obj[key], null when the key is absent
Field(obj, key) == DictGet(obj, key, JNull)

IsObjectDoc == call.resp.kind = "json" /\ Doc.t = "obj"

SuccessDoc == IsObjectDoc /\ HasKey(Doc, "success") /\ Field(Doc, "success") = JBool(TRUE)

FailureDoc ==
    IsObjectDoc /\ (~HasKey(Doc, "success") \/ Field(Doc, "success") = JBool(FALSE))

Evaluated(step) == \E i \in 1..Len(steps) : steps[i] = step

\* step a was evaluated, and before step b
EvaluatedBefore(a, b) ==
    \E i, j \in 1..Len(steps) : i < j /\ steps[i] = a /\ steps[j] = b

\* the text of a string field of the document, or its default
TextOr(obj, key, default) == IF HasKey(obj, key) THEN Field(obj, key).s ELSE default

\* the rates (or symbols) object of a success document, {} when absent
ObjectOr(key) == IF HasKey(Doc, key) THEN Field(Doc, key) ELSE JObj(<<>>)

\* the upper-cased form of the currency arguments the host passes
UpperCased(text) ==
    CASE text \in {"USD", "usd", "Usd"} -> "USD"
      [] text \in {"EUR", "eur"} -> "EUR"
      [] text = "GBP" -> "GBP"
      [] text \in {"usd,gbp"} -> "USD,GBP"
      [] text \in {"USD,EUR"} -> "USD,EUR"

\* the entries "CODE: value" of the `limit` smallest codes of items, ascending
SmallestListed(items, limit) ==
    LET smaller == [i \in 1..Len(items) |->
                       Cardinality({j \in 1..Len(items) : StrLess(items[j].k, items[i].k)})]
        shown == IF Len(items) < limit THEN Len(items) ELSE limit
    IN  [r \in 1..shown |->
            LET item == items[CHOOSE i \in 1..Len(items) : smaller[i] = r - 1]
            IN  item.k \o ": " \o PyStr(item.v)]

\* the entries "CODE: value" of items in the order of the document
AllListed(items) == [i \in 1..Len(items) |-> items[i].k \o ": " \o PyStr(items[i].v)]

RatesHeader ==
    "Exchange rates for " \o TextOr(Doc, "base", "EUR") \o " on "
        \o TextOr(Doc, "date", "unknown") \o ": "

\* the document lists its first two entries out of code order
OutOfOrder(items) == Len(items) >= 2 /\ StrLess(items[2].k, items[1].k)

(***************************************************************************)
(* C1: each of the four fetch procedures ends by returning a string and    *)
(* never raises, whatever the request did (connection failure, timeout,    *)
(* malformed body, unexpected shape of the document); whenever the request *)
(* or the parse failed, or any exception was caught, the string begins     *)
(* with "Error: ".                                                         *)
(***************************************************************************)
C1_FetchReturnsStringNeverRaises ==
    FetchReturned =>
        /\ raised = ""
        /\ Len(ret) > 0
        /\ (call.resp.kind # "json" \/ Doc.t # "obj") => StartsWith(ret, "Error: ")
        /\ (Evaluated("except Exception") \/ Evaluated("except ValueError"))
               => StartsWith(ret, "Error: ")

C1_Witness ==
    /\ Returned("convert_currency")
    /\ call.resp.kind = "json_raises"
    /\ raised = ""
    /\ StartsWith(ret, "Error: ")

(***************************************************************************)
(* C2: in every fetch procedure, convert_currency included, an exception   *)
(* raised by the request or by parsing the body is surfaced as exactly     *)
(* "Error: " followed by the message of that exception, whatever its       *)
(* class.                                                                  *)
(***************************************************************************)
C2_ErrorTextIsExceptionMessage ==
    (FetchReturned /\ call.resp.kind \in {"get_raises", "json_raises"})
        => ret = "Error: " \o call.resp.exc.msg

(***************************************************************************)
(* C3: an assignment of t > 0 to timeout succeeds and every later fetch    *)
(* passes t to the request until the next successful assignment; an        *)
(* assignment of t <= 0 fails with an error and leaves the stored timeout  *)
(* as it was (30 at first); the stored timeout is always > 0 and base_url  *)
(* never changes.                                                          *)
(***************************************************************************)
C3_TimeoutContract ==
    /\ base_url = "https://data.fixer.io/api"
    /\ timeout > 0
    /\ timeout = lastSet
    /\ Returned("timeout.setter") =>
           IF call.args.timeout > 0
           THEN raised = "" /\ timeout = call.args.timeout
           ELSE raised = "ValueError"
    /\ FetchReturned => request.timeout = lastSet

C3_Witness ==
    /\ Returned("timeout.setter")
    /\ call.args.timeout <= 0
    /\ raised = "ValueError"
    /\ timeout # 30
    /\ timeout = lastSet

(***************************************************************************)
(* C4: in each fetch procedure a document whose success is false or absent *)
(* yields "Error: {error.info}" when the info is given and "Error: API     *)
(* request failed" when the error object or its info is absent; the branch *)
(* is taken before rates or symbols are read and, in convert_currency,     *)
(* before the amount is parsed.                                            *)
(***************************************************************************)
C4_ApiFailureReported ==
    (/\ FetchReturned
     /\ FailureDoc
     /\ (~HasKey(Doc, "error") \/ Field(Doc, "error").t = "obj"))
        => /\ raised = ""
           /\ ret = "Error: " \o TextOr(Field(Doc, "error"), "info", "API request failed")
           /\ \A i \in 1..Len(steps) :
                  steps[i] \notin {"rates", "symbols", "sorted", "lookup", "float",
                                   "divide", "multiply", "format"}

C4_Witness ==
    /\ Returned("convert_currency")
    /\ call.args.amount = "abc"
    /\ FailureDoc
    /\ HasKey(Doc, "rates")
    /\ ret = "Error: You have not supplied a valid API Access Key."

(***************************************************************************)
(* C5: get_rates on a success document of n rates lists exactly min(10, n) *)
(* entries "CODE: rate", those of the smallest codes in ascending order,   *)
(* and the trailing count is n - 10, negative for n < 10.                  *)
(***************************************************************************)
C5_GetRatesListsTenSmallest ==
    (/\ Returned("get_rates")
     /\ SuccessDoc
     /\ ObjectOr("rates").t = "obj")
        => /\ raised = ""
           /\ ret = RatesHeader
                        \o Join(", ", SmallestListed(ObjectOr("rates").items, 10))
                        \o " (and " \o ToString(Len(ObjectOr("rates").items) - 10)
                        \o " more currencies available)"

C5_Witness ==
    /\ Returned("get_rates")
    /\ SuccessDoc
    /\ Len(ObjectOr("rates").items) > 10
    /\ OutOfOrder(ObjectOr("rates").items)
    /\ StartsWith(ret, "Exchange rates for USD on 2024-01-01: AA: 1, AB: ")

(***************************************************************************)
(* C6: convert_currency on a success document in which the upper-cased     *)
(* source or target code is absent from rates, or has a falsy rate such as *)
(* 0, returns "Error: Could not find rates for {source} or {target}"       *)
(* whether or not the amount parses; the division is never evaluated with  *)
(* a zero source rate.                                                     *)
(***************************************************************************)
NoRate(j) == j.t = "null" \/ (j.t \in {"int", "float"} /\ j.n = 0)

SourceRate == Field(ObjectOr("rates"), UpperCased(call.args.source_currency))

TargetRate == Field(ObjectOr("rates"), UpperCased(call.args.target_currency))

C6_MissingRateReported ==
    /\ (/\ Returned("convert_currency")
        /\ SuccessDoc
        /\ ObjectOr("rates").t = "obj"
        /\ (NoRate(SourceRate) \/ NoRate(TargetRate)))
           => /\ raised = ""
              /\ ret = "Error: Could not find rates for " \o call.args.source_currency
                           \o " or " \o call.args.target_currency
              /\ ~Evaluated("float")
              /\ ~Evaluated("divide")
    /\ (Returned("convert_currency") /\ Evaluated("divide"))
           => (SuccessDoc /\ ~NoRate(SourceRate))

C6_Witness ==
    /\ Returned("convert_currency")
    /\ call.args.amount = "abc"
    /\ call.args.source_currency = "usd"
    /\ SuccessDoc
    /\ SourceRate = JFloat(0)
    /\ TargetRate = JFloat(85)
    /\ ret = "Error: Could not find rates for usd or eur"

(***************************************************************************)
(* C7: convert_currency on a success document with non-zero rates for both *)
(* currencies, called with an amount that is no number, returns "Error:    *)
(* Invalid amount '{amount}'. Please provide a numeric value." with the    *)
(* amount as given; the amount is parsed only after the success check and  *)
(* the rate lookup have passed.                                            *)
(***************************************************************************)
NonZeroRate(j) == j.t \in {"int", "float"} /\ j.n # 0

NotNumeric == {"abc", "", "1,5"}

C7_InvalidAmountReported ==
    /\ (/\ Returned("convert_currency")
        /\ SuccessDoc
        /\ ObjectOr("rates").t = "obj"
        /\ NonZeroRate(SourceRate)
        /\ NonZeroRate(TargetRate)
        /\ call.args.amount \in NotNumeric)
           => /\ raised = ""
              /\ ret = "Error: Invalid amount '" \o call.args.amount
                           \o "'. Please provide a numeric value."
    /\ (Returned("convert_currency") /\ Evaluated("float"))
           => /\ SuccessDoc
              /\ ~NoRate(SourceRate)
              /\ ~NoRate(TargetRate)
              /\ EvaluatedBefore("success", "float")
              /\ EvaluatedBefore("lookup", "float")

C7_Witness ==
    /\ Returned("convert_currency")
    /\ call.args.amount = "abc"
    /\ SuccessDoc
    /\ SourceRate = JFloat(100)
    /\ TargetRate = JFloat(85)
    /\ ret = "Error: Invalid amount 'abc'. Please provide a numeric value."

(***************************************************************************)
(* C8: convert_currency on a success document with non-zero rates for both *)
(* currencies and a numeric amount returns "Converted {amount} {SOURCE} to *)
(* {result} {TARGET} (rate: {conversionRate}) on {date}", where            *)
(* conversionRate = rates[TARGET] / rates[SOURCE] is shown at 6 decimals   *)
(* and result = amount * conversionRate at 4, the amount is echoed as      *)
(* given and the codes are upper-cased; "100", USD 1.0, EUR 0.85 gives     *)
(* 85.0000 at rate 0.850000.                                               *)
(***************************************************************************)
Numeric == {"100", "2.5", " 7 ", "-3"}

\* the number an amount stands for: <<numerator, denominator>>
AmountFraction(a) ==
    CASE a = "100" -> <<100, 1>>
      [] a = "2.5" -> <<25, 10>>
      [] a = " 7 " -> <<7, 1>>
      [] a = "-3" -> <<-3, 1>>

RateUnit(j) == IF j.t = "float" THEN 100 ELSE 1

\* rates[TARGET] / rates[SOURCE] as <<numerator, denominator>>
ExactRate ==
    IF RateUnit(TargetRate) = RateUnit(SourceRate)
    THEN <<TargetRate.n, SourceRate.n>>
    ELSE <<TargetRate.n * RateUnit(SourceRate), SourceRate.n * RateUnit(TargetRate)>>

\* amount * rate, in magnitude
ExactResult(a) ==
    <<Abs(AmountFraction(a)[1]) * ExactRate[1], AmountFraction(a)[2] * ExactRate[2]>>

\* q / 10^d is a decimal of d places nearest to frac
NearestDecimal(q, frac, d) ==
    /\ q \in {(frac[1] * Pow10(d)) \div frac[2], (frac[1] * Pow10(d)) \div frac[2] + 1}
    /\ 2 * Abs(q * frac[2] - frac[1] * Pow10(d)) <= frac[2]

DecimalCandidates(frac, d) ==
    {q \in {(frac[1] * Pow10(d)) \div frac[2], (frac[1] * Pow10(d)) \div frac[2] + 1} :
        NearestDecimal(q, frac, d)}

\* q / 10^d written with d decimals
Decimal(q, d) == ToString(q \div Pow10(d)) \o "." \o ZeroPad(q % Pow10(d), d)

C8_ConversionFormatted ==
    (/\ Returned("convert_currency")
     /\ SuccessDoc
     /\ ObjectOr("rates").t = "obj"
     /\ NonZeroRate(SourceRate)
     /\ NonZeroRate(TargetRate)
     /\ call.args.amount \in Numeric)
        => /\ raised = ""
           /\ \E q4 \in DecimalCandidates(ExactResult(call.args.amount), 4),
                 q6 \in DecimalCandidates(ExactRate, 6) :
                  ret = "Converted " \o call.args.amount \o " "
                            \o UpperCased(call.args.source_currency) \o " to "
                            \o (IF AmountFraction(call.args.amount)[1] < 0 THEN "-" ELSE "")
                            \o Decimal(q4, 4) \o " "
                            \o UpperCased(call.args.target_currency) \o " (rate: "
                            \o Decimal(q6, 6) \o ") on " \o TextOr(Doc, "date", "unknown")
           /\ (/\ call.args.amount = "100"
               /\ call.args.source_currency = "USD"
               /\ call.args.target_currency = "EUR"
               /\ SourceRate = JFloat(100)
               /\ TargetRate = JFloat(85)
               /\ HasKey(Doc, "date"))
                  => ret = "Converted 100 USD to 85.0000 EUR (rate: 0.850000) on 2024-01-01"

C8_Witness ==
    /\ Returned("convert_currency")
    /\ call.args.amount = "2.5"
    /\ call.args.source_currency = "usd"
    /\ SourceRate = JFloat(108)
    /\ TargetRate = JFloat(85)
    /\ ret = "Converted 2.5 USD to 1.9676 EUR (rate: 0.787037) on 2024-01-01"

(***************************************************************************)
(* C9: check_supported_currencies on a success document of n symbols lists *)
(* exactly min(20, n) entries "CODE: name", those of the smallest codes in *)
(* ascending order, and its header gives the total as n.                   *)
(***************************************************************************)
C9_SymbolsListTwentySmallest ==
    (/\ Returned("check_supported_currencies")
     /\ SuccessDoc
     /\ ObjectOr("symbols").t = "obj")
        => /\ raised = ""
           /\ ret = "Supported currencies (first 20 of "
                        \o ToString(Len(ObjectOr("symbols").items)) \o " total): "
                        \o Join(", ", SmallestListed(ObjectOr("symbols").items, 20))

C9_Witness ==
    /\ Returned("check_supported_currencies")
    /\ SuccessDoc
    /\ Len(ObjectOr("symbols").items) > 20
    /\ OutOfOrder(ObjectOr("symbols").items)
    /\ StartsWith(ret, "Supported currencies (first 20 of 22 total): AA: Currency AA, AB: ")

(***************************************************************************)
(* C10: get_specific_rates on a success document returns one entry         *)
(* "CODE: rate" for every rate of the response, however many, with no      *)
(* trailing count, in the order of the response and not sorted; the        *)
(* currencies are sent upper-cased in the symbols parameter.               *)
(***************************************************************************)
C10_SpecificRatesListsAll ==
    /\ (/\ Returned("get_specific_rates")
        /\ SuccessDoc
        /\ ObjectOr("rates").t = "obj")
           => /\ raised = ""
              /\ ret = RatesHeader \o Join(", ", AllListed(ObjectOr("rates").items))
    /\ Returned("get_specific_rates")
           => request.url = "https://data.fixer.io/api/latest?access_key=" \o call.args.api_key
                                \o "&symbols=" \o UpperCased(call.args.currencies)

C10_Witness ==
    /\ Returned("get_specific_rates")
    /\ call.args.currencies = "usd,gbp"
    /\ request.url = "https://data.fixer.io/api/latest?access_key=test_key&symbols=USD,GBP"
    /\ SuccessDoc
    /\ Len(ObjectOr("rates").items) > 10
    /\ OutOfOrder(ObjectOr("rates").items)
    /\ raised = ""

====
